---------------------------- MODULE Spec2Model ----------------------------
(***************************************************************************)
(* Model of class Graph of src/js/index.js: the node list, the edge list,  *)
(* the label-keyed adjacency list, and the three methods addNode, addEdge  *)
(* and dijkstra.  Every method runs to completion (the program is          *)
(* single-threaded and synchronous), so every method is one action.        *)
(*                                                                         *)
(* A node object is the record [id, label]; the coordinates x and y are    *)
(* never read by Graph and are left out.  Two node objects created by the  *)
(* same graph differ in id, so record equality is JavaScript's ===.        *)
(*                                                                         *)
(* GraphVisualizer, the only caller in the repository, is modelled by its  *)
(* fields graph (the four variables of Graph), selectedNodes and the value *)
(* of its mode select, and by its click handlers.                          *)
(***************************************************************************)
EXTENDS Integers, Sequences, FiniteSets, TLC

VARIABLES
    nodes,          \* graph.nodes
    edges,          \* graph.edges
    adjacencyList,  \* graph.adjacencyList
    call,           \* the last method call on graph: arguments and outcome
    repeats,        \* how often that call was repeated at once, unchanged
    selectedNodes,  \* GraphVisualizer.selectedNodes
    mode,           \* GraphVisualizer.modeSelect.value
    graphNo         \* how many times clearGraph replaced this.graph

\* The fields of GraphVisualizer outside its graph.
ui == <<selectedNodes, mode, graphNo>>

vars == <<nodes, edges, adjacencyList, call, repeats, selectedNodes, mode,
          graphNo>>

\* ------------------------------------------------------------- bounds
MaxNodes == 3       \* addNode is called at most MaxNodes times
MaxEdges == 2       \* addEdge is called at most MaxEdges times (Spec)
MaxEdgesWF == 3     \* addEdge is called at most MaxEdgesWF times (SpecWF)
MaxWeight == 1      \* the largest weight a caller passes
MaxRepeats == 2     \* a query is repeated at most MaxRepeats times at once
MaxClears == 1      \* clearGraph is called at most MaxClears times (SpecUI)

\* The weights a caller passes; addEdge validates nothing, so a negative
\* weight is an input like any other.
Weights == (0 - 1)..MaxWeight

\* ------------------------------------------------------- JS values
\* Infinity (line 29).  Every finite distance of the model is far below it.
Infinity == 1000

\* JavaScript's +: Infinity + w is Infinity for every finite w.
Plus(d, w) == IF d = Infinity THEN Infinity ELSE d + w

\* null (line 30) and undefined, as a node-shaped value that is no node.
Null == [id |-> 0 - 2, label |-> "null"]

\* String.fromCharCode(65 + k), the label GraphVisualizer.addNode passes.
LabelOf(k) == <<"A", "B", "C", "D", "E", "F">>[k + 1]

\* A node object that no addNode call of this graph created; its label is
\* never registered.
Foreign == [id |-> 0 - 1, label |-> "Z"]

\* The node objects graph.nodes holds.
Registered == {nodes[i] : i \in 1..Len(nodes)}

\* The labels that have an adjacency list.
LabelSet == DOMAIN adjacencyList

\* The record of a call that has not happened.
NoCall ==
    [op |-> "none", from |-> Null, to |-> Null, weight |-> 0, threw |-> FALSE,
     path |-> <<>>, distance |-> 0, hasDistance |-> FALSE,
     distances |-> <<>>, previous |-> <<>>, trace |-> <<>>, walkCut |-> FALSE]

\* ---------------------------------------------------------- constructor
Init ==
    /\ nodes = <<>>
    /\ edges = <<>>
    /\ adjacencyList = <<>>
    /\ call = NoCall
    /\ repeats = 0
    /\ selectedNodes = <<>>
    /\ mode = "add-node"
    /\ graphNo = 0

\* --------------------------------------------------------------- addNode
\* An addNode that creates the list only for a label that has none
\* (adjacencyList[label] ||= []).
SetEmptyListIfAbsent(adj, label) ==
    [l \in DOMAIN adj \cup {label} |-> IF l \in DOMAIN adj THEN adj[l] ELSE <<>>]

\* this.adjacencyList[label] = [] (line 11): the list stored under label is
\* created, or replaced when the label is already a key.
SetEmptyList(adj, label) ==
    [l \in DOMAIN adj \cup {label} |-> IF l = label THEN <<>> ELSE adj[l]]

\* An addNode that takes the id after the push (nodes.length read one line
\* too late).
addNodeIdAfterPush(label) ==
    LET node == [id |-> Len(nodes) + 1, label |-> label]
    IN  /\ nodes' = Append(nodes, node)
        /\ adjacencyList' = SetEmptyList(adjacencyList, label)
        /\ UNCHANGED edges
        /\ call' = [NoCall EXCEPT !.op = "addNode", !.to = node]

\* Lines 8-13.  The node returned is recorded in call.to.
addNode(label) ==
    LET node == [id |-> Len(nodes), label |-> label]
    IN  /\ nodes' = Append(nodes, node)
        /\ adjacencyList' = SetEmptyList(adjacencyList, label)
        /\ UNCHANGED edges
        /\ call' = [NoCall EXCEPT !.op = "addNode", !.to = node]

\* --------------------------------------------------------------- addEdge
\* An addEdge that puts the entry in front (unshift for push).
PushEntryFront(adj, label, entry) ==
    [adj EXCEPT ![label] = <<entry>> \o @]

\* this.adjacencyList[label].push(entry) (lines 18, 19).
PushEntry(adj, label, entry) ==
    [adj EXCEPT ![label] = Append(@, entry)]

\* Line 16 runs first; line 18 throws a TypeError when from.label is no key
\* (push of undefined), and line 19 when to.label is none.  What ran before
\* the throw stays.
addEdge(from, to, weight) ==
    LET adj1 == PushEntry(adjacencyList, from.label,
                          [node |-> to, weight |-> weight])
        adj2 == PushEntry(adj1, to.label, [node |-> from, weight |-> weight])
        rec == [NoCall EXCEPT !.op = "addEdge", !.from = from, !.to = to,
                              !.weight = weight]
    IN  /\ edges' = Append(edges, [from |-> from, to |-> to, weight |-> weight])
        /\ UNCHANGED nodes
        /\ IF from.label \notin LabelSet
           THEN /\ UNCHANGED adjacencyList
                /\ call' = [rec EXCEPT !.threw = TRUE]
           ELSE IF to.label \notin LabelSet
           THEN /\ adjacencyList' = adj1
                /\ call' = [rec EXCEPT !.threw = TRUE]
           ELSE /\ adjacencyList' = adj2
                /\ call' = rec


\* -------------------------------------------------------------- dijkstra
\* A dijkstra that never sets distances[start.label] = 0 (line 33 dropped).
InitDistancesNoStart(start) ==
    [l \in {nodes[i].label : i \in 1..Len(nodes)} \cup {start.label} |-> Infinity]

\* Lines 28-33: every node's label gets distance Infinity, predecessor null
\* and a place in unvisited; then distances[start.label] = 0, which adds the
\* key when start's label is the label of no node.
InitDistances(start) ==
    [l \in {nodes[i].label : i \in 1..Len(nodes)} \cup {start.label} |->
        IF l = start.label THEN 0 ELSE Infinity]

InitPrevious == [l \in {nodes[i].label : i \in 1..Len(nodes)} |-> Null]

InitUnvisited == {nodes[i].label : i \in 1..Len(nodes)}

\* A scan that keeps the first unvisited node it meets (the comparison of
\* line 42 dropped).
RECURSIVE SelectFromFirst(_, _, _, _)
SelectFromFirst(i, cur, distances, unvisited) ==
    IF i > Len(nodes) THEN cur
    ELSE LET node == nodes[i]
             take == node.label \in unvisited /\ cur = Null
         IN  SelectFromFirst(i + 1, IF take THEN node ELSE cur, distances,
                             unvisited)

\* Lines 37-46: the scan of this.nodes in order, from index i on; cur is the
\* candidate so far.  A later node replaces it only on a strictly smaller
\* distance.
RECURSIVE SelectFrom(_, _, _, _)
SelectFrom(i, cur, distances, unvisited) ==
    IF i > Len(nodes) THEN cur
    ELSE LET node == nodes[i]
             take == /\ node.label \in unvisited
                     /\ \/ cur = Null
                        \/ distances[node.label] < distances[cur.label]
         IN  SelectFrom(i + 1, IF take THEN node ELSE cur, distances, unvisited)

SelectCurrent(distances, unvisited) == SelectFrom(1, Null, distances, unvisited)

\* A relaxation that forgets the distance of current (line 57 without its
\* first summand).
RelaxOneNoAdd(neighbor, current, dp, unvisited) ==
    LET nl == neighbor.node.label
        tentativeDistance == neighbor.weight
    IN  IF nl \notin unvisited THEN dp
        ELSE IF tentativeDistance < dp.distances[nl]
        THEN [distances |-> [dp.distances EXCEPT ![nl] = tentativeDistance],
              previous |-> [dp.previous EXCEPT ![nl] = current]]
        ELSE dp

\* A relaxation that also takes a candidate equal to the current distance
\* (<= for < in line 58).
RelaxOneNonStrict(neighbor, current, dp, unvisited) ==
    LET nl == neighbor.node.label
        tentativeDistance == Plus(dp.distances[current.label], neighbor.weight)
    IN  IF nl \notin unvisited THEN dp
        ELSE IF tentativeDistance <= dp.distances[nl]
        THEN [distances |-> [dp.distances EXCEPT ![nl] = tentativeDistance],
              previous |-> [dp.previous EXCEPT ![nl] = current]]
        ELSE dp

\* A relaxation without line 54: a node already removed from unvisited is
\* relaxed like any other.
RelaxOneVisited(neighbor, current, dp, unvisited) ==
    LET nl == neighbor.node.label
        tentativeDistance == Plus(dp.distances[current.label], neighbor.weight)
    IN  IF nl \notin DOMAIN dp.previous THEN dp
        ELSE IF tentativeDistance < dp.distances[nl]
        THEN [distances |-> [dp.distances EXCEPT ![nl] = tentativeDistance],
              previous |-> [dp.previous EXCEPT ![nl] = current]]
        ELSE dp

\* Lines 54-61 for one adjacency entry; dp is [distances, previous].
RelaxOne(neighbor, current, dp, unvisited) ==
    LET nl == neighbor.node.label
        tentativeDistance == Plus(dp.distances[current.label], neighbor.weight)
    IN  IF nl \notin unvisited THEN dp
        ELSE IF tentativeDistance < dp.distances[nl]
        THEN [distances |-> [dp.distances EXCEPT ![nl] = tentativeDistance],
              previous |-> [dp.previous EXCEPT ![nl] = current]]
        ELSE dp

\* Lines 53-62: the entries of current's adjacency list, in order.
RECURSIVE Relax(_, _, _, _)
Relax(entries, current, dp, unvisited) ==
    IF entries = <<>> THEN dp
    ELSE Relax(Tail(entries), current,
               RelaxOne(Head(entries), current, dp, unvisited), unvisited)

\* Lines 35-63.  st is [distances, previous, unvisited, trace, threw]; trace
\* gets one record per iteration of the while loop: the node selected, the
\* maps and the unvisited set at the moment of selection, and how the
\* iteration ended ("end": line 48, "null": line 49, "relaxed": line 62,
\* "threw": line 53 on a label without adjacency list).
RECURSIVE MainLoop(_, _)
MainLoop(st, end) ==
    IF st.unvisited = {} THEN st
    ELSE LET current == SelectCurrent(st.distances, st.unvisited)
             it == [current |-> current, distances |-> st.distances,
                    previous |-> st.previous, unvisited |-> st.unvisited,
                    how |-> "relaxed"]
         IN  IF current = end
             THEN [st EXCEPT !.trace = Append(@, [it EXCEPT !.how = "end"])]
             ELSE IF current = Null
             THEN [st EXCEPT !.trace = Append(@, [it EXCEPT !.how = "null"])]
             ELSE IF current.label \notin LabelSet
             THEN [st EXCEPT !.trace = Append(@, [it EXCEPT !.how = "threw"]),
                             !.unvisited = @ \ {current.label},
                             !.threw = TRUE]
             ELSE LET unvisited == st.unvisited \ {current.label}
                      dp == Relax(adjacencyList[current.label], current,
                                  [distances |-> st.distances,
                                   previous |-> st.previous], unvisited)
                  IN  MainLoop([st EXCEPT !.distances = dp.distances,
                                          !.previous = dp.previous,
                                          !.unvisited = unvisited,
                                          !.trace = Append(@, it)], end)

\* A walk that puts each node at the back of path (push for unshift in line
\* 69).
RECURSIVE WalkPush(_, _, _, _)
WalkPush(current, previous, path, fuel) ==
    IF current = Null THEN [path |-> path, cut |-> FALSE]
    ELSE IF fuel = 0 THEN [path |-> path, cut |-> TRUE]
    ELSE WalkPush(IF current.label \in DOMAIN previous
                  THEN previous[current.label] ELSE Null,
                  previous, path \o <<current>>, fuel - 1)

\* Lines 66-71: the walk from end along previous, each node put in front of
\* path; previous[label] of a label that is no key is undefined and ends the
\* walk like null.  A walk longer than one step per key plus one for end has
\* come back to a label and would never end: it is cut there, with cut set.
RECURSIVE Walk(_, _, _, _)
Walk(current, previous, path, fuel) ==
    IF current = Null THEN [path |-> path, cut |-> FALSE]
    ELSE IF fuel = 0 THEN [path |-> path, cut |-> TRUE]
    ELSE Walk(IF current.label \in DOMAIN previous
              THEN previous[current.label] ELSE Null,
              previous, <<current>> \o path, fuel - 1)

\* A dijkstra that uses this.nodes itself as the unvisited collection and
\* drops each node as it is removed.
dijkstraShift(start, end) ==
    LET st == MainLoop([distances |-> InitDistances(start),
                        previous |-> InitPrevious,
                        unvisited |-> InitUnvisited,
                        trace |-> <<>>, threw |-> FALSE], end)
        keep(n) == n.label \in st.unvisited
    IN  /\ nodes' = SelectSeq(nodes, keep)
        /\ UNCHANGED <<edges, adjacencyList>>
        /\ call' = [NoCall EXCEPT !.op = "dijkstra", !.from = start,
                                  !.to = end, !.trace = st.trace]

\* A dijkstra that takes the entries out of each list as it reads them
\* (shift() in a while loop for the for-of of line 53).
dijkstraConsume(start, end) ==
    LET st == MainLoop([distances |-> InitDistances(start),
                        previous |-> InitPrevious,
                        unvisited |-> InitUnvisited,
                        trace |-> <<>>, threw |-> FALSE], end)
        w == Walk(end, st.previous, <<>>, Cardinality(DOMAIN st.previous) + 1)
        has == end.label \in DOMAIN st.distances
        removed == {st.trace[i].current.label :
                      i \in {k \in 1..Len(st.trace) : st.trace[k].how = "relaxed"}}
    IN  /\ adjacencyList' = [l \in DOMAIN adjacencyList |->
                                IF l \in removed THEN <<>> ELSE adjacencyList[l]]
        /\ UNCHANGED <<nodes, edges>>
        /\ call' = [NoCall EXCEPT
                      !.op = "dijkstra", !.from = start, !.to = end,
                      !.distances = st.distances, !.previous = st.previous,
                      !.trace = st.trace,
                      !.path = [i \in 1..Len(w.path) |-> w.path[i].label],
                      !.walkCut = w.cut,
                      !.hasDistance = has,
                      !.distance = IF has THEN st.distances[end.label] ELSE 0]

\* Lines 22-77.  The graph's own fields are only read.  distance is
\* distances[end.label], undefined (hasDistance FALSE) when end's label is no
\* key of distances.
dijkstra(start, end) ==
    LET st == MainLoop([distances |-> InitDistances(start),
                        previous |-> InitPrevious,
                        unvisited |-> InitUnvisited,
                        trace |-> <<>>, threw |-> FALSE], end)
        w == Walk(end, st.previous, <<>>, Cardinality(DOMAIN st.previous) + 1)
        has == end.label \in DOMAIN st.distances
        rec == [NoCall EXCEPT !.op = "dijkstra", !.from = start, !.to = end,
                              !.distances = st.distances,
                              !.previous = st.previous, !.trace = st.trace]
    IN  /\ UNCHANGED <<nodes, edges, adjacencyList>>
        /\ call' = IF st.threw THEN [rec EXCEPT !.threw = TRUE]
                   ELSE [rec EXCEPT
                           !.path = [i \in 1..Len(w.path) |-> w.path[i].label],
                           !.walkCut = w.cut,
                           !.hasDistance = has,
                           !.distance = IF has THEN st.distances[end.label]
                                        ELSE 0]

\* ----------------------------------------------------- the callers
\* A query changes no field of the graph, so the state after a sequence of
\* queries is the state after its last query alone: the callers below take a
\* query only from a state whose last call was not one, which reaches the
\* same states with fewer runs of the algorithm.
\* Spec: any caller of the three methods.  A label is any label in use or
\* the next unused one, an endpoint any node of the graph or a node object
\* the graph never created, a weight any of Weights.
CallerLabels == {LabelOf(k) : k \in 0..Len(nodes)}

Objects == Registered \cup {Foreign}

CallAddNode ==
    /\ Len(nodes) < MaxNodes
    /\ \E label \in CallerLabels : addNode(label)
    /\ repeats' = 0
    /\ UNCHANGED ui

CallAddEdge ==
    /\ Len(edges) < MaxEdges
    /\ \E from \in Objects, to \in Objects, weight \in Weights :
          addEdge(from, to, weight)
    /\ repeats' = 0
    /\ UNCHANGED ui

CallDijkstra ==
    /\ call.op # "dijkstra"
    /\ \E start \in Objects, end \in Objects : dijkstra(start, end)
    /\ repeats' = 0
    /\ UNCHANGED ui

Next == CallAddNode \/ CallAddEdge \/ CallDijkstra

Spec == Init /\ [][Next]_vars

\* SpecRepeat: the callers of Spec, and a caller that repeats the query
\* just made, with the same two arguments and nothing in between.
CallRepeat ==
    /\ call.op = "dijkstra"
    /\ repeats < MaxRepeats
    /\ dijkstra(call.from, call.to)
    /\ repeats' = repeats + 1
    /\ UNCHANGED ui

NextRepeat == CallAddNode \/ CallAddEdge \/ CallDijkstra \/ CallRepeat

SpecRepeat == Init /\ [][NextRepeat]_vars

\* SpecWF: a caller that keeps the documented preconditions: every label is
\* new (the label GraphVisualizer.addNode makes), and every endpoint is a
\* node of the graph.  Weights stay any of Weights.
WFAddNode ==
    /\ Len(nodes) < MaxNodes
    /\ addNode(LabelOf(Len(nodes)))
    /\ repeats' = 0
    /\ UNCHANGED ui

WFAddEdge ==
    /\ Len(edges) < MaxEdgesWF
    /\ \E from \in Registered, to \in Registered, weight \in Weights :
          addEdge(from, to, weight)
    /\ repeats' = 0
    /\ UNCHANGED ui

WFDijkstra ==
    /\ call.op # "dijkstra"
    /\ \E start \in Registered, end \in Registered : dijkstra(start, end)
    /\ repeats' = 0
    /\ UNCHANGED ui

NextWF == WFAddNode \/ WFAddEdge \/ WFDijkstra

SpecWF == Init /\ [][NextWF]_vars

\* ------------------------------------------------------ GraphVisualizer
\* The values of the mode select that handleContainerClick acts on (lines
\* 112-122).
Modes == {"add-node", "add-edge", "select-path"}

\* A node object held by GraphVisualizer, with the Graph instance that made
\* it: nodes of two instances are different objects even when id and label
\* agree, and !== of lines 197 and 291 tells them apart.
Tagged(node) == [node |-> node, graph |-> graphNo]

\* The constructor (lines 81-92): an empty graph and no selection.  Line 100
\* throws on this.computePathBtn, which is never set; the listeners of
\* lines 95-99 are registered before that and stay.  The value of the mode
\* select is whatever the page sets.
InitUI ==
    /\ nodes = <<>>
    /\ edges = <<>>
    /\ adjacencyList = <<>>
    /\ call = NoCall
    /\ repeats = 0
    /\ selectedNodes = <<>>
    /\ mode \in Modes
    /\ graphNo = 0

\* Lines 125-140, reached from line 114: a click in mode add-node.
uiAddNode ==
    /\ mode = "add-node"
    /\ Len(nodes) < MaxNodes
    /\ addNode(LabelOf(Len(nodes)))
    /\ repeats' = 0
    /\ UNCHANGED ui

\* Lines 175-215, reached from line 117: a click in mode add-edge that hits
\* the element of node (an element of the container stands for
\* graph.nodes[dataset.id] of the current graph, since clearGraph empties
\* the container); weight is what prompt returns, parsed.  A click that hits
\* no element changes nothing.
handleEdgeSelection(node, weight) ==
    /\ mode = "add-edge"
    /\ IF Len(selectedNodes) = 0
       THEN /\ selectedNodes' = <<Tagged(node)>>
            /\ UNCHANGED <<nodes, edges, adjacencyList, call, repeats, mode,
                           graphNo>>
       ELSE IF Len(selectedNodes) = 1 /\ selectedNodes[1] # Tagged(node)
       THEN /\ Len(edges) < MaxEdges
            /\ addEdge(selectedNodes[1].node, node, weight)
            /\ selectedNodes' = IF call'.threw THEN selectedNodes ELSE <<>>
            /\ repeats' = 0
            /\ UNCHANGED <<mode, graphNo>>
       ELSE UNCHANGED vars

\* A clearGraph without line 344: the selection survives the graph.
clearGraphKeepSelection ==
    /\ graphNo < MaxClears
    /\ nodes' = <<>>
    /\ edges' = <<>>
    /\ adjacencyList' = <<>>
    /\ call' = NoCall
    /\ repeats' = 0
    /\ graphNo' = graphNo + 1
    /\ UNCHANGED <<selectedNodes, mode>>

\* Lines 269-303, reached from line 120: a click in mode select-path that
\* hits the element of node.  computeShortestPath (lines 305-338) calls
\* dijkstra inside try/catch, so line 300 runs whatever the call does.
handlePathSelection(node) ==
    /\ mode = "select-path"
    /\ IF Len(selectedNodes) = 0
       THEN /\ selectedNodes' = <<Tagged(node)>>
            /\ UNCHANGED <<nodes, edges, adjacencyList, call, repeats, mode,
                           graphNo>>
       ELSE IF Len(selectedNodes) = 1 /\ selectedNodes[1] # Tagged(node)
       THEN /\ dijkstra(selectedNodes[1].node, node)
            /\ selectedNodes' = <<>>
            /\ repeats' = 0
            /\ UNCHANGED <<mode, graphNo>>
       ELSE UNCHANGED vars

\* The user picks another entry of the mode select.
changeMode(m) ==
    /\ m # mode
    /\ mode' = m
    /\ UNCHANGED <<nodes, edges, adjacencyList, call, repeats, selectedNodes,
                   graphNo>>

\* Lines 340-346: a new Graph, on which no method was called yet, and an
\* empty selection.
clearGraph ==
    /\ graphNo < MaxClears
    /\ nodes' = <<>>
    /\ edges' = <<>>
    /\ adjacencyList' = <<>>
    /\ call' = NoCall
    /\ repeats' = 0
    /\ selectedNodes' = <<>>
    /\ graphNo' = graphNo + 1
    /\ UNCHANGED mode

\* SpecUI: the events of the page, one handler at a time.
ClickEdge ==
    \E node \in Registered, weight \in Weights :
        handleEdgeSelection(node, weight)

ClickPath == \E node \in Registered : handlePathSelection(node)

SelectMode == \E m \in Modes : changeMode(m)

NextUI == uiAddNode \/ ClickEdge \/ ClickPath \/ SelectMode \/ clearGraph

SpecUI == InitUI /\ [][NextUI]_vars

\* ================================================================ claims
\* The last call was a query that returned.
Returned == call.op = "dijkstra" /\ ~call.threw

DistinctLabels ==
    \A i, j \in 1..Len(nodes) : nodes[i].label = nodes[j].label => i = j

\* Every endpoint recorded in graph.edges is a node of the graph.
EdgesRegistered ==
    \A i \in 1..Len(edges) :
        edges[i].from \in Registered /\ edges[i].to \in Registered

NonNegative == \A i \in 1..Len(edges) : edges[i].weight >= 0

\* The node at the other end of edge e seen from node n (Null: e does not
\* touch n).
OtherEnd(e, n) ==
    IF e.from = n THEN e.to ELSE IF e.to = n THEN e.from ELSE Null

\* The total weights of the simple paths of graph.edges from node n to node
\* target that avoid the nodes of seen, by enumeration.
RECURSIVE PathCosts(_, _, _)
PathCosts(n, target, seen) ==
    IF n = target THEN {0}
    ELSE UNION {
        LET o == OtherEnd(edges[i], n)
        IN  IF o = Null \/ o \in seen THEN {}
            ELSE {c + edges[i].weight : c \in PathCosts(o, target, seen \cup {o})}
        : i \in 1..Len(edges)}

Costs(a, b) == PathCosts(a, b, {a})

Reachable(a, b) == Costs(a, b) # {}

Minimum(S) == CHOOSE m \in S : \A x \in S : m <= x

\* The sums of weights obtained by choosing, for every two consecutive labels
\* of path, one edge of graph.edges whose endpoints carry these labels; empty
\* when some consecutive pair is joined by no edge.
RECURSIVE PathSums(_)
PathSums(path) ==
    IF Len(path) <= 1 THEN {0}
    ELSE LET ws == {edges[i].weight : i \in
                     {k \in 1..Len(edges) :
                        \/ /\ edges[k].from.label = path[1]
                           /\ edges[k].to.label = path[2]
                        \/ /\ edges[k].from.label = path[2]
                           /\ edges[k].to.label = path[1]}}
         IN  {w + r : w \in ws, r \in PathSums(Tail(path))}

\* C1: on a graph with pairwise distinct labels and non-negative weights,
\* for nodes a, b of the graph with b reachable from a, dijkstra(a, b)
\* returns as distance the minimum total weight over the simple paths from
\* a to b.
C1_MinimumDistance ==
    (/\ call.op = "dijkstra"
     /\ call.from \in Registered /\ call.to \in Registered
     /\ DistinctLabels /\ EdgesRegistered /\ NonNegative
     /\ Reachable(call.from, call.to))
    => /\ Returned
       /\ call.hasDistance
       /\ call.distance = Minimum(Costs(call.from, call.to))

\* A query on a triangle whose two-edge route is strictly shorter than the
\* direct edge, answered with the two-edge route.
C1_Witness ==
    /\ Returned /\ NonNegative /\ DistinctLabels /\ EdgesRegistered
    /\ Len(call.path) = 3
    /\ \E i \in 1..Len(edges) :
          /\ {edges[i].from, edges[i].to} = {call.from, call.to}
          /\ edges[i].weight > call.distance

\* C2: on a graph with pairwise distinct labels, for nodes a, b with b
\* reachable from a, the path dijkstra(a, b) returns starts with a.label,
\* ends with b.label, joins consecutive labels by edges of graph.edges, and
\* one edge per consecutive pair can be chosen so that the weights sum to
\* the returned distance.
C2_PathIsWalkOfDistance ==
    (/\ call.op = "dijkstra"
     /\ call.from \in Registered /\ call.to \in Registered
     /\ DistinctLabels /\ EdgesRegistered
     /\ Reachable(call.from, call.to))
    => /\ Returned
       /\ Len(call.path) >= 1
       /\ call.path[1] = call.from.label
       /\ call.path[Len(call.path)] = call.to.label
       /\ call.hasDistance
       /\ call.distance \in PathSums(call.path)

\* A returned path over three nodes on a graph with a negative weight and a
\* pair of parallel edges of different weights.
C2_Witness ==
    /\ Returned /\ DistinctLabels /\ EdgesRegistered
    /\ Len(call.path) = 3
    /\ call.path[1] = call.from.label
    /\ ~NonNegative
    /\ \E i, j \in 1..Len(edges) :
          /\ {edges[i].from, edges[i].to} = {edges[j].from, edges[j].to}
          /\ edges[i].weight # edges[j].weight

\* C3: on a graph with pairwise distinct labels, for nodes a, b with b not
\* reachable from a, dijkstra(a, b) raises no error and returns distance
\* Infinity and the one-element path of b.label.
C3_UnreachableIsInfinity ==
    (/\ call.op = "dijkstra"
     /\ call.from \in Registered /\ call.to \in Registered
     /\ DistinctLabels /\ EdgesRegistered
     /\ ~Reachable(call.from, call.to))
    => /\ Returned
       /\ call.hasDistance
       /\ call.distance = Infinity
       /\ call.path = <<call.to.label>>

\* A query for an unreachable end that has an edge of its own: the loop
\* removed start and end's neighbour, both before it selected end.
C3_Witness ==
    /\ Returned /\ DistinctLabels /\ EdgesRegistered
    /\ call.from \in Registered /\ call.to \in Registered
    /\ ~Reachable(call.from, call.to)
    /\ Len(call.trace) = 3
    /\ \E i \in 1..Len(edges) :
          edges[i].to = call.to /\ edges[i].from # call.to

\* C4: for every graph (duplicate labels, self-loops, parallel edges and
\* weights of any sign included) and every node n of it, dijkstra(n, n)
\* returns path [n.label] and distance 0.
C4_SameNode ==
    (/\ call.op = "dijkstra"
     /\ call.from = call.to
     /\ call.from \in Registered)
    => /\ Returned
       /\ call.path = <<call.from.label>>
       /\ call.hasDistance
       /\ call.distance = 0

\* dijkstra(n, n) for the second of two nodes that share a label, which has
\* a self-loop of negative weight: the loop selects the first node of that
\* label, not n, and runs on.
C4_Witness ==
    /\ Returned
    /\ call.from = call.to
    /\ call.from \in Registered
    /\ call.from.id >= 1
    /\ nodes[1].label = call.from.label
    /\ Len(call.trace) >= 2
    /\ \E i \in 1..Len(edges) :
          /\ edges[i].from = call.from /\ edges[i].to = call.from
          /\ edges[i].weight < 0

\* The number of entries x in sequence seq.
Count(seq, x) == Cardinality({i \in 1..Len(seq) : seq[i] = x})

\* The number of entries x that the edges of graph.edges put in the list of
\* label l: one per edge from a node labelled l to x.node, one per edge from
\* x.node to a node labelled l.
Expected(l, x) ==
    Cardinality({i \in 1..Len(edges) :
        /\ edges[i].from.label = l /\ edges[i].to = x.node
        /\ edges[i].weight = x.weight})
    + Cardinality({i \in 1..Len(edges) :
        /\ edges[i].to.label = l /\ edges[i].from = x.node
        /\ edges[i].weight = x.weight})

RECURSIVE TotalEntries(_)
TotalEntries(ls) ==
    IF ls = {} THEN 0
    ELSE LET l == CHOOSE l \in ls : TRUE
         IN  Len(adjacencyList[l]) + TotalEntries(ls \ {l})

\* C5: after any sequence of addNode and addEdge calls the adjacency lists
\* hold exactly two entries per edge of graph.edges: for each edge (a, b, w)
\* the entry (b, w) in a's list and the entry (a, w) in b's list, so the
\* number of entries is twice the number of edges.
C5_TwoEntriesPerEdge ==
    /\ \A i \in 1..Len(edges) :
          edges[i].from.label \in LabelSet /\ edges[i].to.label \in LabelSet
    /\ \A l \in LabelSet :
          /\ \A k \in 1..Len(adjacencyList[l]) :
                Count(adjacencyList[l], adjacencyList[l][k])
                    = Expected(l, adjacencyList[l][k])
          /\ \A i \in 1..Len(edges) :
                /\ edges[i].from.label = l =>
                      [node |-> edges[i].to, weight |-> edges[i].weight]
                          \in {adjacencyList[l][k] : k \in 1..Len(adjacencyList[l])}
                /\ edges[i].to.label = l =>
                      [node |-> edges[i].from, weight |-> edges[i].weight]
                          \in {adjacencyList[l][k] : k \in 1..Len(adjacencyList[l])}
    /\ TotalEntries(LabelSet) = 2 * Len(edges)

\* C6: an addEdge(a, b, w) that returns, on nodes a and b of the graph,
\* appends one record to graph.edges, appends (b, w) to the list of a's
\* label and then (a, w) to the list of b's label, and leaves the nodes,
\* the earlier edge records and the earlier entries of every list as they
\* were.
C6_AddEdgeAppends ==
    [][(/\ call'.op = "addEdge" /\ ~call'.threw
        /\ call'.from \in Registered /\ call'.to \in Registered)
       => /\ nodes' = nodes
          /\ edges' = edges \o <<[from |-> call'.from, to |-> call'.to,
                                   weight |-> call'.weight]>>
          /\ DOMAIN adjacencyList' = DOMAIN adjacencyList
          /\ \A l \in DOMAIN adjacencyList :
                adjacencyList'[l] =
                    adjacencyList[l]
                    \o (IF l = call'.from.label
                        THEN <<[node |-> call'.to, weight |-> call'.weight]>>
                        ELSE <<>>)
                    \o (IF l = call'.to.label
                        THEN <<[node |-> call'.from, weight |-> call'.weight]>>
                        ELSE <<>>)]_vars

\* A second edge between two different nodes was just added: both lists
\* held an entry before and now end with the new one.
C6_Witness ==
    /\ call.op = "addEdge" /\ ~call.threw
    /\ call.from \in Registered /\ call.to \in Registered
    /\ call.from.label # call.to.label
    /\ Len(edges) = 2
    /\ Len(adjacencyList[call.from.label]) = 2
    /\ Len(adjacencyList[call.to.label]) = 2
    /\ adjacencyList[call.from.label][2] =
          [node |-> call.to, weight |-> call.weight]
    /\ adjacencyList[call.to.label][2] =
          [node |-> call.from, weight |-> call.weight]
    /\ adjacencyList[call.from.label][1] # adjacencyList[call.from.label][2]

\* C7: an addEdge that fails because from's or to's label has no adjacency
\* list leaves graph.nodes, graph.edges and every adjacency list exactly as
\* they were before the call.
C7_NoPartialMutation ==
    [][(call'.op = "addEdge" /\ call'.threw)
       => UNCHANGED <<nodes, edges, adjacencyList>>]_vars

\* C8: a query whose start or end has a label without adjacency list
\* reports an error instead of returning a path and a distance.
C8_LookupError ==
    (/\ call.op = "dijkstra"
     /\ \/ call.from.label \notin LabelSet
        \/ call.to.label \notin LabelSet)
    => call.threw

\* C9: a call of dijkstra, whatever its arguments and however it ends,
\* leaves graph.nodes, graph.edges and every adjacency list as they were.
C9_QueryReadsOnly ==
    [][call'.op = "dijkstra"
       => UNCHANGED <<nodes, edges, adjacencyList>>]_vars

\* A query that removed a node from unvisited, relaxed over an edge and
\* returned a path of two nodes or more.
C9_Witness ==
    /\ call.op = "dijkstra"
    /\ Len(edges) >= 1
    /\ Len(call.trace) >= 2
    /\ Len(call.path) >= 2

\* C10: dijkstra terminates on every graph built by addNode and addEdge
\* (self-loops, parallel edges, weights of any sign, duplicate labels,
\* disconnected parts): the main loop runs at most once per node and the
\* walk along previous comes to no label twice.
C10_Terminates ==
    call.op = "dijkstra"
    => /\ Len(call.trace) <= Len(nodes)
       /\ ~call.walkCut
       /\ \A i, j \in 1..Len(call.path) :
             call.path[i] = call.path[j] => i = j

\* A query over a negative edge and a self-loop that ran the loop once per
\* node and walked back over two nodes.
C10_Witness ==
    /\ Returned
    /\ Len(nodes) >= 2
    /\ Len(call.trace) = Len(nodes)
    /\ Len(call.path) >= 2
    /\ \E i, j \in 1..Len(edges) :
          /\ edges[i].weight < 0
          /\ edges[i].from # edges[i].to
          /\ edges[j].from = edges[j].to
          /\ edges[j].from \in Registered

\* C11: addNode with a label that is already registered does not fail: it
\* appends a new node with the next id to graph.nodes and returns it,
\* replaces the list stored under that label by an empty list, and leaves
\* graph.edges and the lists of all other labels unchanged.
C11_DuplicateLabelReplacesList ==
    [][(call'.op = "addNode" /\ nodes' # nodes
        /\ call'.to.label \in DOMAIN adjacencyList)
       => /\ ~call'.threw
          /\ call'.to.id = Len(nodes)
          /\ nodes' = nodes \o <<call'.to>>
          /\ edges' = edges
          /\ DOMAIN adjacencyList' = DOMAIN adjacencyList
          /\ adjacencyList'[call'.to.label] = <<>>
          /\ \A l \in DOMAIN adjacencyList :
                l # call'.to.label => adjacencyList'[l] = adjacencyList[l]]_vars

\* addNode was just called with the label of an earlier node that has an
\* edge: the list of that label is empty again, the list of the edge's other
\* end still holds its entry, and graph.edges still holds the edge.
C11_Witness ==
    /\ call.op = "addNode" /\ ~call.threw
    /\ \E i \in 1..Len(nodes) - 1 : nodes[i].label = call.to.label
    /\ adjacencyList[call.to.label] = <<>>
    /\ \E i \in 1..Len(edges) :
          /\ edges[i].from.label = call.to.label
          /\ edges[i].to.label \in LabelSet
          /\ edges[i].to.label # call.to.label
          /\ adjacencyList[edges[i].to.label] # <<>>

\* C12: node ids are assigned in sequence and never reused: the k-th
\* addNode call, counted from 0, returns a node with id k, and after any
\* sequence of addNode, addEdge and dijkstra calls graph.nodes[i].id is i
\* for every index i, so no two nodes share an id.
C12_SequentialIds ==
    /\ \A i \in 1..Len(nodes) : nodes[i].id = i - 1
    /\ \A i, j \in 1..Len(nodes) : nodes[i].id = nodes[j].id => i = j
    /\ call.op = "addNode" =>
          /\ call.to = nodes[Len(nodes)]
          /\ call.to.id = Len(nodes) - 1

\* Three nodes, two of them with the same label, after an addEdge that
\* threw and a query.
C12_Witness ==
    /\ Len(nodes) = 3
    /\ ~DistinctLabels
    /\ call.op = "dijkstra"
    /\ \E i \in 1..Len(edges) : edges[i].to = Foreign

\* C13: repeating dijkstra(a, b) on a graph that is not modified between the
\* calls returns the same path, label by label, and the same distance every
\* time.
C13_RepeatedQuerySameResult ==
    [][(/\ call.op = "dijkstra" /\ call'.op = "dijkstra"
        /\ repeats' = repeats + 1)
       => /\ call'.from = call.from /\ call'.to = call.to
          /\ call'.threw = call.threw
          /\ call'.path = call.path
          /\ call'.hasDistance = call.hasDistance
          /\ call'.distance = call.distance]_vars

\* The same query was made three times running and went over an edge.
C13_Witness ==
    /\ Returned
    /\ repeats = 2
    /\ Len(call.path) >= 2
    /\ Len(call.trace) >= 2

\* The tentative distance the node selected in iteration i of the last
\* query had at the moment it was selected.
SelectedDistance(i) ==
    call.trace[i].distances[call.trace[i].current.label]

\* The iterations of the last query that removed their node from unvisited
\* (line 51).
Removals == {i \in 1..Len(call.trace) : call.trace[i].how = "relaxed"}

\* C14: the main loop stops as soon as every node left in unvisited has
\* tentative distance Infinity: no node whose tentative distance is Infinity
\* is ever selected and removed from unvisited.
C14_NoInfiniteRemoval ==
    call.op = "dijkstra" => \A i \in Removals : SelectedDistance(i) # Infinity

\* distances and previous of the last query as they were when iteration i
\* selected its node; for i one past the last iteration, as they were when
\* the loop was left.
Snap(i) ==
    IF i <= Len(call.trace)
    THEN [distances |-> call.trace[i].distances,
          previous |-> call.trace[i].previous]
    ELSE [distances |-> call.distances, previous |-> call.previous]

\* C15: relaxation is strict and touches only unvisited nodes: a label's
\* tentative distance and predecessor change only while the label is still
\* in unvisited, only to the node just removed, and only when the candidate
\* is strictly smaller than the current distance, so an equal candidate
\* never replaces the predecessor; and a label removed from unvisited keeps
\* its distance and predecessor for the rest of the call.
C15_StrictRelaxation ==
    call.op = "dijkstra" =>
        \A i \in 1..Len(call.trace) : \A l \in DOMAIN call.trace[i].previous :
            LET before == Snap(i)
                after == Snap(i + 1)
                left == call.trace[i].unvisited \ {call.trace[i].current.label}
            IN  /\ (\/ after.distances[l] # before.distances[l]
                     \/ after.previous[l] # before.previous[l])
                    => /\ call.trace[i].how = "relaxed"
                       /\ l \in left
                       /\ after.distances[l] < before.distances[l]
                       /\ after.previous[l] = call.trace[i].current
                /\ l \notin left
                    => /\ call.distances[l] = before.distances[l]
                       /\ call.previous[l] = before.previous[l]

\* A query in which the node removed has an entry for a label still in
\* unvisited whose candidate equals the finite distance that label already
\* has from another node, and the label kept that predecessor.
C15_Witness ==
    /\ Returned
    /\ \E i \in Removals :
          \E k \in 1..Len(adjacencyList[call.trace[i].current.label]) :
            LET entry == adjacencyList[call.trace[i].current.label][k]
                l == entry.node.label
            IN  /\ l \in call.trace[i].unvisited
                /\ l # call.trace[i].current.label
                /\ call.trace[i].distances[l] # Infinity
                /\ Plus(SelectedDistance(i), entry.weight)
                       = call.trace[i].distances[l]
                /\ call.trace[i].previous[l] # Null
                /\ call.trace[i].previous[l] # call.trace[i].current
                /\ Snap(i + 1).previous[l] = call.trace[i].previous[l]

\* The shortest distance from node a to node n over graph.edges, by
\* enumeration of the simple paths; Infinity when there is none.
TrueDistance(a, n) ==
    IF Reachable(a, n) THEN Minimum(Costs(a, n)) ELSE Infinity

\* C16: on a graph with pairwise distinct labels and non-negative weights,
\* dijkstra removes nodes from unvisited in non-decreasing order of
\* tentative distance, and when a node is selected (removed, or selected as
\* end) its tentative distance is its true shortest distance from start, or
\* Infinity when it is unreachable.
C16_SelectionOrder ==
    (/\ call.op = "dijkstra"
     /\ call.from \in Registered /\ call.to \in Registered
     /\ DistinctLabels /\ EdgesRegistered /\ NonNegative)
    => /\ \A i, j \in Removals :
             i < j => SelectedDistance(i) <= SelectedDistance(j)
       /\ \A i \in 1..Len(call.trace) :
             SelectedDistance(i) = TrueDistance(call.from, call.trace[i].current)

\* A query that selected three nodes at the distances 0, 1 and 2, the last
\* one over a route shorter than a direct edge.
C16_Witness ==
    /\ Returned /\ NonNegative /\ DistinctLabels /\ EdgesRegistered
    /\ Len(call.trace) = 3
    /\ SelectedDistance(1) = 0
    /\ SelectedDistance(2) = 1
    /\ SelectedDistance(3) = 2
    /\ Len(edges) = 3

\* C17: after any interleaving of container clicks in the modes add-node,
\* add-edge and select-path, mode changes and clearGraph, selectedNodes
\* holds at most one node, a node of the current graph; and every
\* graph.addEdge and graph.dijkstra call the handlers make gets two
\* different nodes that are both in graph.nodes of the current graph.
C17_SelectionOfCurrentGraph ==
    [][/\ Len(selectedNodes') <= 1
       /\ \A k \in 1..Len(selectedNodes') :
             /\ selectedNodes'[k].graph = graphNo'
             /\ selectedNodes'[k].node \in {nodes'[i] : i \in 1..Len(nodes')}
       /\ (/\ call'.op \in {"addEdge", "dijkstra"}
           /\ \/ call' # call
              \/ edges' # edges
              \/ (selectedNodes # <<>> /\ selectedNodes' = <<>>))
          => /\ Len(selectedNodes) = 1
             /\ selectedNodes[1].graph = graphNo
             /\ graphNo' = graphNo
             /\ call'.from = selectedNodes[1].node
             /\ call'.from \in Registered
             /\ call'.to \in Registered
             /\ call'.from # call'.to]_vars

\* After a clearGraph: the new graph has an edge that the handlers added,
\* one of its nodes is selected, and the mode is now select-path.
C17_Witness ==
    /\ graphNo = 1
    /\ Len(selectedNodes) = 1
    /\ selectedNodes[1].graph = 1
    /\ mode = "select-path"
    /\ Len(edges) >= 1
    /\ call.op = "dijkstra"

=============================================================================
